---- MODULE Spec2Model ----
(***************************************************************************)
(* Model of the demand-forecast question pipeline of product-geospatial    *)
(* (LLM/app): DataLoader (data_loader.py), QueryAnalyzer                   *)
(* (query_analyzer.py) and LLMAssistant.format_data_context                *)
(* (llm_assistant.py).                                                     *)
(*                                                                         *)
(* Text is modelled as a sequence of characters (one-character strings;    *)
(* the two accented letters of the patterns are the atoms "e_acute" and    *)
(* "E_acute"), so that str.lower(), the `in` substring test, re.search     *)
(* over an alternation of literals, re.findall of the "City (ST)" pattern  *)
(* and sorted() on strings are computed as the code computes them.         *)
(*                                                                         *)
(* A pandas DataFrame is a record [cols, rows]: cols is the sequence of    *)
(* column names and each row is the sequence of its cells in column order. *)
(* DataFrames are objects: heap maps an object identity to its frame, and  *)
(* the DataLoader fields and the values returned to a caller are           *)
(* identities, so that aliasing is visible.                                *)
(***************************************************************************)
EXTENDS Integers, Sequences, FiniteSets, TLC

VARIABLES
  monthly_file,   \* parsed content of the CSV at DataLoader.monthly_path
  daily_file,     \* parsed content of the CSV at DataLoader.daily_path
  heap,           \* DataFrame objects alive: identity -> frame
  monthly_df,     \* DataLoader.monthly_df: None or an identity
  daily_df,       \* DataLoader.daily_df: None or an identity
  reads,          \* how many times load_data has read the two files
  op,             \* the last call made, with its arguments
  ret,            \* what that call returned to the caller
  query,          \* text given to the QueryAnalyzer
  intent,         \* QueryAnalyzer.detect_intent(query), once computed
  cities,         \* QueryAnalyzer.extract_cities(query), once computed
  product,        \* QueryAnalyzer.extract_product(query), once computed
  data,           \* frame given to LLMAssistant.format_data_context
  context,        \* the context it built
  conversation_history,  \* LLMAssistant.conversation_history
  answer,         \* what the last LLMAssistant.ask returned
  asks            \* how many asks have been answered so far

vars == <<monthly_file, daily_file, heap, monthly_df, daily_df, reads, op, ret,
          query, intent, cities, product, data, context,
          conversation_history, answer, asks>>

\* None where a str is expected (Optional[str]): no string of characters equals it.
None == <<"None">>
\* None in a field that otherwise holds a DataFrame (an object identity >= 1).
NoneRef == 0

(***************************************************************************)
(* Bounds of the model.                                                    *)
(***************************************************************************)
MaxWords == 2
MaxQty == 2
MaxReads == 2
MaxTopN == 2
MaxCtxExtra == 2
MaxFilters == 2
MaxAsks == 6

(***************************************************************************)
(* Characters and strings.                                                 *)
(***************************************************************************)
AsciiUpper == <<"A","B","C","D","E","F","G","H","I","J","K","L","M",
                "N","O","P","Q","R","S","T","U","V","W","X","Y","Z">>
AsciiLower == <<"a","b","c","d","e","f","g","h","i","j","k","l","m",
                "n","o","p","q","r","s","t","u","v","w","x","y","z">>
Digits == <<"0","1","2","3","4","5","6","7","8","9">>

\* Code-point order of the characters the model's strings use (str.__lt__).
CodePoints == <<" ", "(", ")", "-">> \o Digits \o AsciiUpper \o <<"_">>
              \o AsciiLower \o <<"E_acute", "e_acute">>

Range(s) == {s[i] : i \in DOMAIN s}

IndexOf(s, c) == CHOOSE i \in DOMAIN s : s[i] = c

Ord(c) == IndexOf(CodePoints, c)

IsUpper(c) == c \in Range(AsciiUpper)
IsLower(c) == c \in Range(AsciiLower)
IsSpace(c) == c = " "
\* A word character of a str pattern: letters (accented ones included), digits, underscore.
IsWordChar(c) == c \in Range(AsciiUpper) \cup Range(AsciiLower) \cup Range(Digits)
                       \cup {"_", "E_acute", "e_acute"}

\* str.lower() on one character.
LowerChar(c) ==
  IF IsUpper(c) THEN AsciiLower[IndexOf(AsciiUpper, c)]
  ELSE IF c = "E_acute" THEN "e_acute" ELSE c

\* str.lower()
Lower(s) == [i \in DOMAIN s |-> LowerChar(s[i])]

\* k in s  (substring test); also re.search of the literal k in s.
Contains(s, k) ==
  \E i \in 1..(Len(s) - Len(k) + 1) : SubSeq(s, i, i + Len(k) - 1) = k

\* s < t on str: lexicographic by code point.
RECURSIVE StrLess(_, _)
StrLess(s, t) ==
  IF t = <<>> THEN FALSE
  ELSE IF s = <<>> THEN TRUE
  ELSE IF s[1] = t[1] THEN StrLess(Tail(s), Tail(t))
  ELSE Ord(s[1]) < Ord(t[1])

(***************************************************************************)
(* QueryAnalyzer.__init__: the patterns and the city mapping.              *)
(***************************************************************************)
\* Each keyword pattern is an alternation of literals: the sequence of them.
patterns == [
  stock_increase |-> <<<<"a","u","g","m","e","n","t">>, <<"s","t","o","c","k">>, <<"a","p","p","r","o","v","i","s","i","o","n">>, <<"c","o","m","m","a","n","d","e","r">>, <<"l","i","v","r">>>>,
  comparison |-> <<<<"c","o","m","p","a","r">>, <<"v","e","r","s","u","s">>, <<"v","s">>, <<"d","i","f","f","e_acute","r","e","n","c","e">>, <<"e","n","t","r","e">>>>,
  growth |-> <<<<"p","r","o","g","r","e","s","s">>, <<"c","r","o","i","s","s","a","n","c","e">>, <<"e_acute","v","o","l","u">>, <<"a","u","g","m","e","n","t">>, <<"t","e","n","d","a","n","c","e">>>>,
  top_cities |-> <<<<"t","o","p">>, <<"m","e","i","l","l","e","u","r">>, <<"p","l","u","s"," ","f","o","r","t">>, <<"c","l","a","s","s","e","m","e","n","t">>>>,
  product_thinkpad |-> <<<<"t","h","i","n","k","p","a","d">>, <<"l","a","p","t","o","p">>, <<"o","r","d","i","n","a","t","e","u","r">>>>,
  product_batteries |-> <<<<"b","a","t","t","e","r">>, <<"p","i","l","e">>, <<"a","a","a">>>> ]

\* dict order is insertion order: the sequence of (key, full name) pairs.
city_mapping == <<
  <<<<"d","a","l","l","a","s">>, <<"D","a","l","l","a","s"," ","(","T","X",")">>>>,
  <<<<"h","o","u","s","t","o","n">>, <<"H","o","u","s","t","o","n"," ","(","T","X",")">>>>,
  <<<<"a","u","s","t","i","n">>, <<"A","u","s","t","i","n"," ","(","T","X",")">>>>,
  <<<<"s","a","n"," ","f","r","a","n","c","i","s","c","o">>, <<"S","a","n"," ","F","r","a","n","c","i","s","c","o"," ","(","C","A",")">>>>,
  <<<<"l","o","s"," ","a","n","g","e","l","e","s">>, <<"L","o","s"," ","A","n","g","e","l","e","s"," ","(","C","A",")">>>>,
  <<<<"n","e","w"," ","y","o","r","k">>, <<"N","e","w"," ","Y","o","r","k"," ","C","i","t","y"," ","(","N","Y",")">>>>,
  <<<<"b","o","s","t","o","n">>, <<"B","o","s","t","o","n"," ","(","M","A",")">>>>,
  <<<<"s","e","a","t","t","l","e">>, <<"S","e","a","t","t","l","e"," ","(","W","A",")">>>>,
  <<<<"a","t","l","a","n","t","a">>, <<"A","t","l","a","n","t","a"," ","(","G","A",")">>>>,
  <<<<"p","o","r","t","l","a","n","d">>, <<"P","o","r","t","l","a","n","d"," ","(","M","E",")">>>>,
  <<<<"w","a","s","h","i","n","g","t","o","n">>, <<"W","a","s","h","i","n","g","t","o","n"," ","D","C">>>> >>

ThinkPadLaptop == <<"T","h","i","n","k","P","a","d"," ","L","a","p","t","o","p">>
AAABatteries == <<"A","A","A"," ","B","a","t","t","e","r","i","e","s"," ","(","4","-","p","a","c","k",")">>

\* re.search(pattern, s) for a pattern that is an alternation of literals.
Search(pat, s) == \E i \in DOMAIN pat : Contains(s, pat[i])

(***************************************************************************)
(* The 'specific_city' pattern: at a word boundary, a capitalised word     *)
(* (one A-Z then one or more a-z), any number of further capitalised words *)
(* each after whitespace [group 1], optional whitespace, and a             *)
(* parenthesised pair of A-Z letters [group 2].  Every quantifier of it is *)
(* followed by something its own characters cannot match, so the greedy    *)
(* match at a position is the only one.                                    *)
(***************************************************************************)
\* The character at i, or "" (no character) outside the string.
At(s, i) == IF i \in DOMAIN s THEN s[i] ELSE ""

\* Index after the longest run of characters satisfying P that starts at i.
RECURSIVE SkipLower(_, _)
SkipLower(s, i) == IF IsLower(At(s, i)) THEN SkipLower(s, i + 1) ELSE i

RECURSIVE SkipSpace(_, _)
SkipSpace(s, i) == IF IsSpace(At(s, i)) THEN SkipSpace(s, i + 1) ELSE i

\* A capitalised word at i: the index after it, or 0 when there is none.
CapWordEnd(s, i) ==
  IF IsUpper(At(s, i)) /\ IsLower(At(s, i + 1)) THEN SkipLower(s, i + 1) ELSE 0

\* Further capitalised words from i: the index after the last of them.
RECURSIVE MoreWordsEnd(_, _)
MoreWordsEnd(s, i) ==
  LET j == SkipSpace(s, i)
      e == CapWordEnd(s, j)
  IN IF j > i /\ e > 0 THEN MoreWordsEnd(s, e) ELSE i

\* The match starting at i: <<[name, state, end]>>, or <<>> when there is none.
MatchCityAt(s, i) ==
  LET w == CapWordEnd(s, i)
      n == MoreWordsEnd(s, w)
      p == SkipSpace(s, n)
  IN IF /\ ~IsWordChar(At(s, i - 1))
        /\ w > 0
        /\ At(s, p) = "("
        /\ IsUpper(At(s, p + 1))
        /\ IsUpper(At(s, p + 2))
        /\ At(s, p + 3) = ")"
     THEN <<[name |-> SubSeq(s, i, n - 1), state |-> SubSeq(s, p + 1, p + 2),
             end |-> p + 4]>>
     ELSE <<>>

\* re.findall: the non-overlapping matches, leftmost first.
RECURSIVE FindAllCities(_, _)
FindAllCities(s, i) ==
  IF i > Len(s) THEN <<>>
  ELSE LET m == MatchCityAt(s, i)
       IN IF m = <<>> THEN FindAllCities(s, i + 1)
          ELSE m \o FindAllCities(s, m[1].end)

\* for city_key, city_full in city_mapping.items(): if city_key in query_lower
RECURSIVE MappedCities(_, _)
MappedCities(query_lower, i) ==
  IF i > Len(city_mapping) THEN <<>>
  ELSE (IF Contains(query_lower, city_mapping[i][1])
        THEN <<city_mapping[i][2]>> ELSE <<>>)
       \o MappedCities(query_lower, i + 1)

\* A faulty variant of AppendMatches: a match is appended whether or not it is
\* already in the list.
RECURSIVE AppendMatches_untested(_, _)
AppendMatches_untested(found, matches) ==
  IF matches = <<>> THEN found
  ELSE LET city_full == matches[1].name \o <<" ", "(">> \o matches[1].state \o <<")">>
       IN AppendMatches_untested(Append(found, city_full), Tail(matches))

\* for match in matches: append f"{city_name} ({state})" if not yet in cities
RECURSIVE AppendMatches(_, _)
AppendMatches(found, matches) ==
  IF matches = <<>> THEN found
  ELSE LET city_full == matches[1].name \o <<" ", "(">> \o matches[1].state \o <<")">>
       IN AppendMatches(IF city_full \in Range(found) THEN found
                        ELSE Append(found, city_full),
                        Tail(matches))

extract_cities(q) == AppendMatches(MappedCities(Lower(q), 1), FindAllCities(q, 1))

\* A faulty variant of extract_product: the batteries pattern is tried first.
extract_product_batteries_first(q) ==
  IF Search(patterns.product_batteries, Lower(q)) THEN AAABatteries
  ELSE IF Search(patterns.product_thinkpad, Lower(q)) THEN ThinkPadLaptop
  ELSE None

extract_product(q) ==
  IF Search(patterns.product_thinkpad, Lower(q)) THEN ThinkPadLaptop
  ELSE IF Search(patterns.product_batteries, Lower(q)) THEN AAABatteries
  ELSE None

\* A faulty variant of detect_intent: the growth pattern is tried before the
\* comparison pattern.
detect_intent_growth_first(q) ==
  IF Search(patterns.growth, Lower(q)) THEN "growth"
  ELSE IF Search(patterns.comparison, Lower(q)) THEN "comparison"
  ELSE IF Search(patterns.top_cities, Lower(q)) THEN "top_cities"
  ELSE IF Search(patterns.stock_increase, Lower(q)) THEN "stock_increase"
  ELSE "general"

detect_intent(q) ==
  IF Search(patterns.comparison, Lower(q)) THEN "comparison"
  ELSE IF Search(patterns.growth, Lower(q)) THEN "growth"
  ELSE IF Search(patterns.top_cities, Lower(q)) THEN "top_cities"
  ELSE IF Search(patterns.stock_increase, Lower(q)) THEN "stock_increase"
  ELSE "general"

(***************************************************************************)
(* Query texts: up to MaxWords words or phrases of a vocabulary, joined by  *)
(* spaces.                                                                 *)
(***************************************************************************)
Vocabulary == <<
  <<"C","o","m","p","a","r","e">>, <<"V","S">>, <<"D","I","F","F","E_acute","R","E","N","C","E">>, <<"t","e","n","d","a","n","c","e">>, <<"a","u","g","m","e","n","t","e","r">>, <<"t","o","p">>, <<"s","t","o","c","k">>,
  <<"l","a","p","t","o","p">>, <<"T","h","i","n","k","P","a","d">>, <<"b","a","t","t","e","r","i","e","s">>, <<"D","a","l","l","a","s">>, <<"a","u","s","t","i","n">>, <<"A","u","s","t","i","n"," ","(","T","X",")">>,
  <<"R","e","n","o"," ","(","N","V",")">>, <<"M","i","a","m","i"," ","(","F","L",")">>, <<"N","e","w"," ","Y","o","r","k">>, <<"a","n","d">>, <<"d","e","m","a","n","d","e">>,
  <<"D","a","l","l","a","s"," ","a","n","d"," ","A","u","s","t","i","n"," ","(","T","X",")">>, <<"t","h","i","n","k","p","a","d"," ","v","s">>, <<"t","e","n","d","a","n","c","e"," ","l","a","p","t","o","p">> >>

RECURSIVE Join(_)
Join(ws) ==
  IF ws = <<>> THEN <<>>
  ELSE IF Len(ws) = 1 THEN ws[1]
  ELSE ws[1] \o <<" ">> \o Join(Tail(ws))

WordSeqs(n) == UNION {[1..k -> Range(Vocabulary)] : k \in 0..n}

Queries == {Join(ws) : ws \in WordSeqs(MaxWords)}

(***************************************************************************)
(* DataFrames.                                                             *)
(***************************************************************************)
\* The column names the code uses.
Col == [
  Product |-> <<"P","r","o","d","u","c","t">>,
  City_State |-> <<"C","i","t","y","_","S","t","a","t","e">>,
  Month |-> <<"M","o","n","t","h">>,
  Predicted_Quantity |-> <<"P","r","e","d","i","c","t","e","d","_","Q","u","a","n","t","i","t","y">>,
  Date |-> <<"D","a","t","e">>,
  Growth_M1_M2 |-> <<"G","r","o","w","t","h","_","M","1","_","M","2">>,
  Growth_M2_M3 |-> <<"G","r","o","w","t","h","_","M","2","_","M","3">>,
  Growth_Total |-> <<"G","r","o","w","t","h","_","T","o","t","a","l">> ]

\* Columns of the monthly and of the daily CSV.
MonthlyCols == <<Col.Product, Col.City_State, Col.Month, Col.Predicted_Quantity>>
DailyCols == <<Col.Date, Col.Predicted_Quantity>>

HasCol(df, c) == c \in Range(df.cols)
ColIndex(df, c) == IndexOf(df.cols, c)

\* df[c] as the sequence of its values.
Column(df, c) == [i \in DOMAIN df.rows |-> df.rows[i][ColIndex(df, c)]]

\* df[df[c] == v]: a new frame with the rows whose c is v, in order.
FilterEq(df, c, v) ==
  [cols |-> df.cols,
   rows |-> SelectSeq(df.rows, LAMBDA r : r[ColIndex(df, c)] = v)]

\* df[df[c].isin(vs)]: a new frame with the rows whose c is one of vs.
FilterIsin(df, c, vs) ==
  [cols |-> df.cols,
   rows |-> SelectSeq(df.rows, LAMBDA r : r[ColIndex(df, c)] \in vs)]

\* A faulty variant of Truthy: the filter is applied whatever the argument.
Truthy_unguarded(x) == TRUE

\* Truth value of an Optional[str] argument: None and "" are false.
Truthy(x) == x # None /\ x # <<>>

RECURSIVE SumSeq(_)
SumSeq(s) ==
  IF s = <<>> THEN 0
  ELSE IF Len(s) = 1 THEN s[1]
  ELSE LET h == Len(s) \div 2
       IN SumSeq(SubSeq(s, 1, h)) + SumSeq(SubSeq(s, h + 1, Len(s)))

Min2(a, b) == IF a <= b THEN a ELSE b

\* sorted() of a set of strings.
RECURSIVE SortedStrs(_)
SortedStrs(S) ==
  IF S = {} THEN <<>>
  ELSE LET m == CHOOSE x \in S : \A y \in S : ~StrLess(y, x)
       IN <<m>> \o SortedStrs(S \ {m})

\* (a1, a2) < (b1, b2) on pairs of strings.
PairLess(a, b) == StrLess(a[1], b[1]) \/ (a[1] = b[1] /\ StrLess(a[2], b[2]))

\* The sorted index of a groupby over two string columns.
RECURSIVE SortedPairs(_)
SortedPairs(S) ==
  IF S = {} THEN <<>>
  ELSE LET m == CHOOSE x \in S : \A y \in S : ~PairLess(y, x)
       IN <<m>> \o SortedPairs(S \ {m})

(***************************************************************************)
(* Float cells of a pivoted frame: a quantity [k = "num"], a percentage    *)
(* rounded to two decimals and held in hundredths [k = "pct"], NaN, or an  *)
(* infinity [k = "inf", v its sign].                                       *)
(***************************************************************************)
Num(v) == [k |-> "num", v |-> v]
Pct(h) == [k |-> "pct", v |-> h]
NaN == [k |-> "nan", v |-> 0]
Inf(sign) == [k |-> "inf", v |-> sign]

\* n / d to the nearest integer, halves to even (numpy's round); d > 0.
RoundDiv(n, d) ==
  LET q == n \div d
      r == n % d
  IN IF 2 * r < d THEN q
     ELSE IF 2 * r > d THEN q + 1
     ELSE IF q % 2 = 0 THEN q ELSE q + 1

\* ((b - a) / a * 100).round(2) on two cells of quantities, as float
\* arithmetic gives it: NaN propagates, x / 0 is an infinity and 0 / 0 is NaN.
GrowthCell(a, b) ==
  IF a.k = "nan" \/ b.k = "nan" THEN NaN
  ELSE IF a.v = 0
       THEN (IF b.v > 0 THEN Inf(1) ELSE IF b.v < 0 THEN Inf(-1) ELSE NaN)
       ELSE IF a.v > 0 THEN Pct(RoundDiv(10000 * (b.v - a.v), a.v))
       ELSE Pct(RoundDiv(10000 * (a.v - b.v), 0 - a.v))

\* n of get_top_cities when the caller gives none, and the n get_relevant_data gives.
DefaultTopN == 5
TopCitiesN == 10

(***************************************************************************)
(* DataLoader: the query operations, as functions of the monthly frame.    *)
(***************************************************************************)
\* pd.read_csv: a new frame with the file's content.
read_csv(file) == [cols |-> file.cols, rows |-> file.rows]

DigitVal(c) == IndexOf(Digits, c) - 1

RECURSIVE ParseInt(_)
ParseInt(s) ==
  IF s = <<>> THEN 0 ELSE 10 * ParseInt(SubSeq(s, 1, Len(s) - 1)) + DigitVal(s[Len(s)])

\* pd.to_datetime on a "YYYY-MM-DD" string: <<year, month, day>>.
to_datetime(s) ==
  <<ParseInt(SubSeq(s, 1, 4)), ParseInt(SubSeq(s, 6, 7)), ParseInt(SubSeq(s, 9, 10))>>

\* daily_df['Date'] = pd.to_datetime(daily_df['Date'])
ConvertDates(df) ==
  [cols |-> df.cols,
   rows |-> [i \in DOMAIN df.rows |->
               [df.rows[i] EXCEPT ![ColIndex(df, Col.Date)] = to_datetime(@)]]]

\* A faulty variant of get_product_data: the rows come out last first.
get_product_data_reversed(mdf, p) ==
  LET df == FilterEq(mdf, Col.Product, p)
  IN [cols |-> df.cols,
      rows |-> [i \in DOMAIN df.rows |-> df.rows[Len(df.rows) + 1 - i]]]

get_product_data(mdf, p) == FilterEq(mdf, Col.Product, p)

\* A faulty variant of get_city_data: the whole table when no row matches.
get_city_data_or_all(mdf, city_state) ==
  LET df == FilterEq(mdf, Col.City_State, city_state)
  IN IF df.rows = <<>> THEN mdf ELSE df

get_city_data(mdf, city_state) == FilterEq(mdf, Col.City_State, city_state)

\* A faulty variant of compare_cities: the product is not applied.
compare_cities_any_product(mdf, city1, city2, p) ==
  FilterIsin(mdf, Col.City_State, {city1, city2})

compare_cities(mdf, city1, city2, p) ==
  LET df == FilterIsin(mdf, Col.City_State, {city1, city2})
  IN IF Truthy(p) THEN FilterEq(df, Col.Product, p) ELSE df

\* groupby('City_State')['Predicted_Quantity'].sum(): one (city, sum) per
\* distinct city, the cities in sorted order (groupby sorts its keys).
GroupSum(df) ==
  LET keys == SortedStrs(Range(Column(df, Col.City_State)))
  IN [i \in DOMAIN keys |->
        <<keys[i],
          SumSeq(Column(FilterEq(df, Col.City_State, keys[i]),
                        Col.Predicted_Quantity))>>]

\* sort_values(ascending=False) with the default kind='quicksort', which is
\* not stable: every arrangement of the series by non-increasing value.
RECURSIVE DescOrders(_)
DescOrders(S) ==
  IF S = {} THEN {<<>>}
  ELSE UNION {{<<m>> \o o : o \in DescOrders(S \ {m})} :
              m \in {x \in S : \A y \in S : y[2] <= x[2]}}

\* A faulty variant of sort_values: ascending order.
sort_values_ascending(series) ==
  {[i \in DOMAIN o |-> o[Len(o) + 1 - i]] : o \in DescOrders(Range(series))}

sort_values(series) == DescOrders(Range(series))

\* A faulty variant of head: no row is cut.
head_uncut(s, n) == s

\* head(n), n >= 0
head(s, n) == SubSeq(s, 1, Min2(n, Len(s)))

\* The frames get_top_cities may return.
get_top_cities(mdf, p, n) ==
  LET product_df == FilterEq(mdf, Col.Product, p)
  IN {[cols |-> <<Col.City_State, Col.Predicted_Quantity>>, rows |-> head(s, n)] :
      s \in sort_values(GroupSum(product_df))}

\* pivot_table(values='Predicted_Quantity', index=['Product', 'City_State'],
\*             columns='Month', aggfunc='sum'): index and columns sorted, a
\* cell the sum over its rows, NaN where there is no row.
PivotCell(df, key, m) ==
  LET rs == SelectSeq(df.rows, LAMBDA r : /\ r[ColIndex(df, Col.Product)] = key[1]
                                          /\ r[ColIndex(df, Col.City_State)] = key[2]
                                          /\ r[ColIndex(df, Col.Month)] = m)
  IN IF rs = <<>> THEN NaN
     ELSE Num(SumSeq([i \in DOMAIN rs |-> rs[i][ColIndex(df, Col.Predicted_Quantity)]]))

pivot_table(df) ==
  LET index == SortedPairs({<<r[ColIndex(df, Col.Product)], r[ColIndex(df, Col.City_State)]>> :
                            r \in Range(df.rows)})
      columns == SortedStrs(Range(Column(df, Col.Month)))
  IN [index |-> index, columns |-> columns,
      cells |-> [i \in DOMAIN index |->
                   [j \in DOMAIN columns |-> PivotCell(df, index[i], columns[j])]]]

\* A faulty variant of GrowthCols: the three columns from two periods on.
GrowthCols_from_two(months) ==
  IF Len(months) >= 2 THEN <<Col.Growth_M1_M2, Col.Growth_M2_M3, Col.Growth_Total>>
  ELSE <<>>

\* The growth columns and their values, row by row.
GrowthCols(months) ==
  IF Len(months) >= 3 THEN <<Col.Growth_M1_M2, Col.Growth_M2_M3, Col.Growth_Total>>
  ELSE IF Len(months) >= 2 THEN <<Col.Growth_M1_M2>>
  ELSE <<>>

GrowthCells(months, c) ==
  IF Len(months) >= 3
  THEN <<GrowthCell(c[1], c[2]), GrowthCell(c[2], c[3]), GrowthCell(c[1], c[3])>>
  ELSE IF Len(months) >= 2 THEN <<GrowthCell(c[1], c[2])>>
  ELSE <<>>

calculate_growth(mdf, p) ==
  LET df == IF Truthy(p) THEN FilterEq(mdf, Col.Product, p) ELSE mdf
      pivot == pivot_table(df)
      months == SortedStrs(Range(pivot.columns))
  IN [cols |-> <<Col.Product, Col.City_State>> \o pivot.columns \o GrowthCols(months),
      rows |-> [i \in DOMAIN pivot.index |->
                  pivot.index[i] \o pivot.cells[i] \o GrowthCells(months, pivot.cells[i])]]

(***************************************************************************)
(* QueryAnalyzer.get_relevant_data, as a function of the monthly frame:    *)
(* the frames it may return.                                               *)
(***************************************************************************)
\* A faulty variant of Dispatch: the top_cities branch returns the ranking
\* itself, not the monthly rows of the ranked locations.
Dispatch_ranking(mdf, i, cs, p) ==
  LET InCities(df) == IF cs # <<>> THEN FilterIsin(df, Col.City_State, Range(cs)) ELSE df
  IN IF i = "comparison" /\ Len(cs) >= 2
     THEN {compare_cities(mdf, cs[1], cs[2], p)}
     ELSE IF i = "growth"
     THEN {InCities(calculate_growth(mdf, p))}
     ELSE IF i = "top_cities"
     THEN (IF Truthy(p) THEN get_top_cities(mdf, p, TopCitiesN) ELSE {mdf})
     ELSE IF i = "stock_increase"
     THEN {InCities(IF Truthy(p) THEN get_product_data(mdf, p) ELSE mdf)}
     ELSE {InCities(IF Truthy(p) THEN FilterEq(mdf, Col.Product, p) ELSE mdf)}

\* The dispatch on the intent i, the cities cs and the product p found in the text.
Dispatch(mdf, i, cs, p) ==
  LET InCities(df) == IF cs # <<>> THEN FilterIsin(df, Col.City_State, Range(cs)) ELSE df
  IN IF i = "comparison" /\ Len(cs) >= 2
     THEN {compare_cities(mdf, cs[1], cs[2], p)}
     ELSE IF i = "growth"
     THEN {InCities(calculate_growth(mdf, p))}
     ELSE IF i = "top_cities"
     THEN (IF Truthy(p)
           THEN {[cols |-> mdf.cols,
                  rows |-> SelectSeq(mdf.rows, LAMBDA r :
                             /\ r[ColIndex(mdf, Col.Product)] = p
                             /\ r[ColIndex(mdf, Col.City_State)]
                                  \in Range(Column(top_cities, Col.City_State)))] :
                 top_cities \in get_top_cities(mdf, p, TopCitiesN)}
           ELSE {mdf})
     ELSE IF i = "stock_increase"
     THEN {InCities(IF Truthy(p) THEN get_product_data(mdf, p) ELSE mdf)}
     ELSE {InCities(IF Truthy(p) THEN FilterEq(mdf, Col.Product, p) ELSE mdf)}

get_relevant_data(mdf, q) ==
  Dispatch(mdf, detect_intent(q), extract_cities(q), extract_product(q))

(***************************************************************************)
(* The tables the CSV files may hold.                                      *)
(***************************************************************************)
Dallas == city_mapping[1][2]
Austin == city_mapping[3][2]
Reno == <<"R","e","n","o"," ","(","N","V",")">>
Miami == <<"M","i","a","m","i"," ","(","F","L",")">>
Mouse == <<"W","i","r","e","l","e","s","s"," ","M","o","u","s","e">>

Months == <<<<"2","0","2","0","-","0","3">>, <<"2","0","2","0","-","0","4">>, <<"2","0","2","0","-","0","5">>, <<"2","0","2","0","-","0","6">>>>

\* The cities of the mapping and one city outside it.
AllCities == [i \in DOMAIN city_mapping |-> city_mapping[i][2]] \o <<Reno>>

MonthlyTable(rows) == [cols |-> MonthlyCols, rows |-> rows]

\* Which (product, city, month) each row of a small table is about.
Shapes == <<
  <<>>,
  << <<ThinkPadLaptop, Dallas, Months[1]>> >>,
  << <<ThinkPadLaptop, Dallas, Months[1]>>, <<ThinkPadLaptop, Dallas, Months[2]>> >>,
  << <<ThinkPadLaptop, Dallas, Months[2]>>, <<ThinkPadLaptop, Austin, Months[1]>> >>,
  << <<ThinkPadLaptop, Dallas, Months[3]>>, <<ThinkPadLaptop, Dallas, Months[1]>>,
     <<ThinkPadLaptop, Dallas, Months[2]>> >>,
  << <<ThinkPadLaptop, Dallas, Months[1]>>, <<ThinkPadLaptop, Dallas, Months[2]>>,
     <<ThinkPadLaptop, Dallas, Months[3]>>, <<ThinkPadLaptop, Dallas, Months[4]>> >>,
  << <<ThinkPadLaptop, Dallas, Months[1]>>, <<ThinkPadLaptop, Austin, Months[1]>>,
     <<AAABatteries, Dallas, Months[1]>>, <<ThinkPadLaptop, Dallas, Months[1]>> >>,
  << <<ThinkPadLaptop, Reno, Months[1]>>, <<ThinkPadLaptop, Dallas, Months[1]>>,
     <<ThinkPadLaptop, Austin, Months[1]>> >>,
  << <<AAABatteries, Dallas, Months[1]>>, <<AAABatteries, Dallas, Months[2]>>,
     <<ThinkPadLaptop, Austin, Months[1]>>, <<ThinkPadLaptop, Austin, Months[2]>> >>,
  << <<ThinkPadLaptop, Dallas, Months[1]>>, <<AAABatteries, Dallas, Months[2]>> >>,
  << <<ThinkPadLaptop, Dallas, Months[2]>>, <<AAABatteries, Dallas, Months[3]>>,
     <<ThinkPadLaptop, Dallas, Months[1]>> >> >>

WithQty(shape, q) ==
  [i \in DOMAIN shape |-> <<shape[i][1], shape[i][2], shape[i][3], q[i]>>]

\* Every small table: a shape with every choice of quantities up to MaxQty.
ShapeTables ==
  UNION {{MonthlyTable(WithQty(Shapes[s], q)) : q \in [DOMAIN Shapes[s] -> 0..MaxQty]} :
         s \in DOMAIN Shapes}

\* A long table: row i is about city i (cyclically), the product changes
\* after each round of the cities and the month after each two rounds.
PatternRow(i, k) ==
  LET nc == Len(AllCities)
  IN << IF ((i - 1) \div nc) % 2 = 0 THEN ThinkPadLaptop ELSE AAABatteries,
        AllCities[((i - 1) % nc) + 1],
        Months[(((i - 1) \div (2 * nc)) % 3) + 1],
        (i * k) % 7 >>

PatternTable(n, k) == MonthlyTable([i \in 1..n |-> PatternRow(i, k)])

\* A shape with the quantities (i * k) mod (MaxQty + 1).
ShapeTable(s, k) ==
  MonthlyTable(WithQty(Shapes[s], [i \in DOMAIN Shapes[s] |-> (i * k) % (MaxQty + 1)]))

DailyTable ==
  [cols |-> DailyCols,
   rows |-> << <<<<"2","0","2","0","-","0","3","-","0","1">>, 1>> >>]

(***************************************************************************)
(* The DataLoader's state and the calls on it.                             *)
(***************************************************************************)
\* Not computed yet: a string, and a list of strings, that no analysis returns.
NotYet == <<"NotYet">>
NotYetList == <<NotYet>>
NoCall == [name |-> "init", of |-> "", product |-> None, city1 |-> None, city2 |-> None,
           n |-> 0, loaded |-> FALSE]
NoFrame == [cols |-> <<>>, rows |-> <<>>]
NoContext == [tag |-> "", total |-> 0, sample |-> NoFrame, stats |-> <<>>]

\* The call `name` about to be made.
Call(name) == [NoCall EXCEPT !.name = name, !.loaded = (monthly_df # NoneRef)]

FreshId(used) == CHOOSE i \in 1..(Cardinality(used) + 1) : i \notin used

Restrict(f, S) == [i \in S |-> f[i]]

\* The loader as a call finds it.  The caller keeps only what the last call
\* returned, and lets go of it when it makes the next call.
Stored ==
  [heap |-> Restrict(heap, {monthly_df, daily_df} \ {NoneRef}),
   m |-> monthly_df, d |-> daily_df, reads |-> reads]

\* DataLoader.load_data: both files are read, into two new frames.
load_data(st) ==
  LET m == FreshId(DOMAIN st.heap)
      d == FreshId(DOMAIN st.heap \cup {m})
  IN [heap |-> (m :> read_csv(monthly_file))
               @@ (d :> ConvertDates(read_csv(daily_file))) @@ st.heap,
      m |-> m, d |-> d, reads |-> st.reads + 1]

\* A faulty variant of IfNone: the files are read on every call.
IfNone_unguarded(st) == load_data(st)

\* if self.monthly_df is None: self.load_data()
IfNone(st) == IF st.m = NoneRef THEN load_data(st) ELSE st

\* The call leaves the loader as st and returns the objects refs.
Returns(st, refs, call) ==
  /\ st.reads <= MaxReads
  /\ heap' = Restrict(st.heap, ({st.m, st.d} \ {NoneRef}) \cup Range(refs))
  /\ monthly_df' = st.m
  /\ daily_df' = st.d
  /\ reads' = st.reads
  /\ op' = call
  /\ ret' = refs
  /\ UNCHANGED <<monthly_file, daily_file, data, context,
                 conversation_history, answer, asks>>

\* A faulty variant of ReturnsNew: a result that is the whole monthly table
\* is the stored table itself, not a copy of it.
ReturnsNew_without_copy(st, frame, call) ==
  IF frame = st.heap[st.m]
  THEN Returns(st, <<st.m>>, call)
  ELSE LET id == FreshId(DOMAIN st.heap)
       IN Returns([st EXCEPT !.heap = (id :> frame) @@ st.heap], <<id>>, call)

\* The call leaves the loader as st and returns a frame it built.
ReturnsNew(st, frame, call) ==
  LET id == FreshId(DOMAIN st.heap)
  IN Returns([st EXCEPT !.heap = (id :> frame) @@ st.heap], <<id>>, call)

ProductArgs == {ThinkPadLaptop, AAABatteries, Mouse, None}
CityArgs == {Dallas, Austin, Reno, Miami}
TopNArgs == 0..MaxTopN \cup {DefaultTopN}

LoadData ==
  /\ LET st == load_data([Stored EXCEPT !.heap = <<>>])
     IN Returns(st, <<st.m, st.d>>, Call("load_data"))
  /\ UNCHANGED <<query, intent, cities, product>>

GetProductData(p) ==
  /\ LET st == IfNone(Stored)
     IN ReturnsNew(st, get_product_data(st.heap[st.m], p),
                   [Call("get_product_data") EXCEPT !.product = p])
  /\ UNCHANGED <<query, intent, cities, product>>

GetCityData(c) ==
  /\ LET st == IfNone(Stored)
     IN ReturnsNew(st, get_city_data(st.heap[st.m], c),
                   [Call("get_city_data") EXCEPT !.city1 = c])
  /\ UNCHANGED <<query, intent, cities, product>>

CompareCities(c1, c2, p) ==
  /\ LET st == IfNone(Stored)
     IN ReturnsNew(st, compare_cities(st.heap[st.m], c1, c2, p),
                   [Call("compare_cities") EXCEPT !.city1 = c1, !.city2 = c2, !.product = p])
  /\ UNCHANGED <<query, intent, cities, product>>

GetTopCities(p, n) ==
  /\ LET st == IfNone(Stored)
     IN \E top_cities \in get_top_cities(st.heap[st.m], p, n) :
          ReturnsNew(st, top_cities,
                     [Call("get_top_cities") EXCEPT !.product = p, !.n = n])
  /\ UNCHANGED <<query, intent, cities, product>>

CalculateGrowth(p) ==
  /\ LET st == IfNone(Stored)
     IN ReturnsNew(st, calculate_growth(st.heap[st.m], p),
                   [Call("calculate_growth") EXCEPT !.product = p])
  /\ UNCHANGED <<query, intent, cities, product>>

GetRelevantData(q) ==
  LET i == detect_intent(q)
      cs == extract_cities(q)
      p == extract_product(q)
      st == IfNone(Stored)
  IN /\ query' = q
     /\ intent' = i
     /\ cities' = cs
     /\ product' = p
     /\ \E result \in Dispatch(st.heap[st.m], i, cs, p) :
          ReturnsNew(st, result, Call("get_relevant_data"))

\* The caller writes a quantity into the first row of a frame it was given.
CallerSetsQuantity(v) ==
  /\ op.name # "mutate"
  /\ \E id \in Range(ret) :
       /\ HasCol(heap[id], Col.Predicted_Quantity)
       /\ heap[id].rows # <<>>
       /\ heap[id].rows[1][ColIndex(heap[id], Col.Predicted_Quantity)] # v
       /\ heap' = [heap EXCEPT ![id].rows[1][ColIndex(heap[id], Col.Predicted_Quantity)] = v]
  /\ op' = [op EXCEPT !.name = "mutate", !.of = op.name]
  /\ UNCHANGED <<monthly_file, daily_file, monthly_df, daily_df, reads, ret,
                 query, intent, cities, product, data, context,
                 conversation_history, answer, asks>>

\* The caller drops the first row of a frame it was given, in place.
CallerDropsRow ==
  /\ op.name # "mutate"
  /\ \E id \in Range(ret) :
       /\ heap[id].rows # <<>>
       /\ heap' = [heap EXCEPT ![id].rows = Tail(@)]
  /\ op' = [op EXCEPT !.name = "mutate", !.of = op.name]
  /\ UNCHANGED <<monthly_file, daily_file, monthly_df, daily_df, reads, ret,
                 query, intent, cities, product, data, context,
                 conversation_history, answer, asks>>

(***************************************************************************)
(* LLMAssistant.format_data_context.  The context is text; it is held here *)
(* as its parts: the header's tag and the counts it states, the rows that  *)
(* data_sample.to_string prints, and the statistics lines in order.        *)
(***************************************************************************)
max_rows == 50

\* One statistics line: its label, and the number or the list it states.
Stat(label, n, list) == [label |-> label, n |-> n, list |-> list]

\* Series.min() and Series.max().
MinSeq(s) == CHOOSE x \in Range(s) : \A y \in Range(s) : x <= y

MaxSeq(s) == CHOOSE x \in Range(s) : \A y \in Range(s) : x >= y

\* Series.unique(): the distinct values in order of first appearance.
RECURSIVE unique(_)
unique(s) ==
  IF Len(s) <= 1 THEN s
  ELSE LET h == Len(s) \div 2
           u == unique(SubSeq(s, 1, h))
       IN u \o SelectSeq(unique(SubSeq(s, h + 1, Len(s))), LAMBDA x : x \notin Range(u))

\* The statistics lines, computed on data (all its rows).  The mean is
\* printed with two decimals and held in hundredths.
Statistics(d) ==
  <<Stat("Total de lignes", Len(d.rows), <<>>)>>
  \o (IF HasCol(d, Col.Predicted_Quantity)
      THEN LET qs == Column(d, Col.Predicted_Quantity)
           IN <<Stat("Quantite totale", SumSeq(qs), <<>>),
                Stat("Quantite moyenne", RoundDiv(100 * SumSeq(qs), Len(qs)), <<>>),
                Stat("Quantite min", MinSeq(qs), <<>>),
                Stat("Quantite max", MaxSeq(qs), <<>>)>>
      ELSE <<>>)
  \o (IF HasCol(d, Col.City_State)
      THEN <<Stat("Nombre de villes", Cardinality(Range(Column(d, Col.City_State))), <<>>)>>
      ELSE <<>>)
  \o (IF HasCol(d, Col.Product)
      THEN <<Stat("Produits", 0, unique(Column(d, Col.Product)))>>
      ELSE <<>>)

\* A faulty variant of format_data_context: the statistics are those of the
\* sample.
format_data_context_sample_stats(d) ==
  LET data_sample == IF Len(d.rows) > max_rows
                     THEN [cols |-> d.cols, rows |-> head(d.rows, max_rows)]
                     ELSE d
  IN [tag |-> IF Len(d.rows) > max_rows THEN "echantillon" ELSE "completes",
      total |-> Len(d.rows),
      sample |-> data_sample,
      stats |-> IF Len(d.rows) > max_rows THEN Statistics(data_sample) ELSE <<>>]

format_data_context(d) ==
  LET data_sample == IF Len(d.rows) > max_rows
                     THEN [cols |-> d.cols, rows |-> head(d.rows, max_rows)]
                     ELSE d
  IN [tag |-> IF Len(d.rows) > max_rows THEN "echantillon" ELSE "completes",
      total |-> Len(d.rows),
      sample |-> data_sample,
      stats |-> IF Len(d.rows) > max_rows THEN Statistics(d) ELSE <<>>]

FormatDataContext ==
  /\ context = NoContext
  /\ context' = format_data_context(data)
  /\ UNCHANGED <<monthly_file, daily_file, heap, monthly_df, daily_df, reads, op, ret,
                 query, intent, cities, product, data,
                 conversation_history, answer, asks>>


(***************************************************************************)
(* LLMAssistant.ask and reset_conversation.  The call to the OpenAI API is *)
(* outside the program: it either returns a text or raises.                *)
(***************************************************************************)
HistoryLimit == 10

Message(role, content) == [role |-> role, content |-> content]

\* A faulty variant of Trim: the first HistoryLimit messages are kept.
Trim_keeps_first(h) == IF Len(h) > HistoryLimit THEN SubSeq(h, 1, HistoryLimit) ELSE h

\* if len(h) > 10: h = h[-10:]
Trim(h) == IF Len(h) > HistoryLimit THEN SubSeq(h, Len(h) - HistoryLimit + 1, Len(h)) ELSE h

\* The history after an ask of q that the API answered with a.
Answered(h, q, a) == Trim(Append(Append(h, Message("user", q)), Message("assistant", a)))

\* The start of the text ask returns when the call raised (one symbol here).
ErrorPrefix == <<"Erreur lors de l'appel a l'API OpenAI : ">>

AskQueries == {Vocabulary[1], Vocabulary[6]}
ApiAnswers == {<<"o","k">>, <<"1","2">>}
ApiErrors == {<<"t","i","m","e","o","u","t">>}

\* ask(q) when chat.completions.create returns a.
AskAnswered(q, a) ==
  /\ asks < MaxAsks
  /\ conversation_history' = Answered(conversation_history, q, a)
  /\ answer' = a
  /\ asks' = asks + 1
  /\ query' = q
  /\ op' = [Call("ask") EXCEPT !.of = "answered"]
  /\ UNCHANGED <<monthly_file, daily_file, heap, monthly_df, daily_df, reads, ret,
                 intent, cities, product, data, context>>

\* ask(q) when chat.completions.create raises e.
AskRaised(q, e) ==
  /\ answer' = ErrorPrefix \o e
  /\ query' = q
  /\ op' = [Call("ask") EXCEPT !.of = "raised"]
  /\ UNCHANGED <<monthly_file, daily_file, heap, monthly_df, daily_df, reads, ret,
                 intent, cities, product, data, context, conversation_history, asks>>

ResetConversation ==
  /\ conversation_history' = <<>>
  /\ op' = Call("reset_conversation")
  /\ UNCHANGED <<monthly_file, daily_file, heap, monthly_df, daily_df, reads, ret,
                 query, intent, cities, product, data, context, answer, asks>>

InitConverse ==
  /\ conversation_history = <<>> /\ answer = <<>> /\ asks = 0
  /\ monthly_file = NoFrame /\ daily_file = NoFrame
  /\ heap = <<>> /\ monthly_df = NoneRef /\ daily_df = NoneRef /\ reads = 0
  /\ op = NoCall /\ ret = <<>>
  /\ query = NotYet /\ intent = "" /\ cities = NotYetList /\ product = NotYet
  /\ data = NoFrame /\ context = NoContext

NextConverse ==
  \/ \E q \in AskQueries, a \in ApiAnswers : AskAnswered(q, a)
  \/ \E q \in AskQueries, e \in ApiErrors : AskRaised(q, e)
  \/ ResetConversation

SpecConverse == InitConverse /\ [][NextConverse]_vars
(***************************************************************************)
(* The analyzer on its own: one text, the three analyses of it.            *)
(***************************************************************************)
InitAnalyze ==
  /\ query \in Queries
  /\ intent = "" /\ cities = NotYetList /\ product = NotYet
  /\ monthly_file = NoFrame /\ daily_file = NoFrame
  /\ heap = <<>> /\ monthly_df = NoneRef /\ daily_df = NoneRef /\ reads = 0
  /\ op = NoCall /\ ret = <<>>
  /\ data = NoFrame /\ context = NoContext
  /\ conversation_history = <<>> /\ answer = <<>> /\ asks = 0

DetectIntent ==
  /\ intent = ""
  /\ intent' = detect_intent(query)
  /\ UNCHANGED <<monthly_file, daily_file, heap, monthly_df, daily_df, reads, op, ret,
                 query, cities, product, data, context,
                 conversation_history, answer, asks>>

ExtractCities ==
  /\ cities = NotYetList
  /\ cities' = extract_cities(query)
  /\ UNCHANGED <<monthly_file, daily_file, heap, monthly_df, daily_df, reads, op, ret,
                 query, intent, product, data, context,
                 conversation_history, answer, asks>>

ExtractProduct ==
  /\ product = NotYet
  /\ product' = extract_product(query)
  /\ UNCHANGED <<monthly_file, daily_file, heap, monthly_df, daily_df, reads, op, ret,
                 query, intent, cities, data, context,
                 conversation_history, answer, asks>>

NextAnalyze == DetectIntent \/ ExtractCities \/ ExtractProduct

SpecAnalyze == InitAnalyze /\ [][NextAnalyze]_vars
(***************************************************************************)
(* The session: one DataLoader and one QueryAnalyzer on it, as constructed *)
(* (nothing loaded yet), and a caller that makes any sequence of calls and *)
(* may write into what a call returned.                                    *)
(***************************************************************************)
SessionFiles == {ShapeTable(7, k) : k \in 1..MaxQty}

SessionProducts == {ThinkPadLaptop, None}
SessionCities == {Dallas, Reno}

SessionQueries == {Join(ws) : ws \in {
  <<>>,
  <<Vocabulary[1], Vocabulary[11], Vocabulary[16], Vocabulary[13]>>,
  <<Vocabulary[4], Vocabulary[12]>>,
  <<Vocabulary[8]>>,
  <<Vocabulary[7], Vocabulary[10], Vocabulary[14]>>,
  <<Vocabulary[6], Vocabulary[10], Vocabulary[11]>> }}

Init ==
  /\ monthly_file \in SessionFiles
  /\ daily_file = DailyTable
  /\ heap = <<>> /\ monthly_df = NoneRef /\ daily_df = NoneRef /\ reads = 0
  /\ op = NoCall /\ ret = <<>>
  /\ query = NotYet /\ intent = "" /\ cities = NotYetList /\ product = NotYet
  /\ data = NoFrame /\ context = NoContext
  /\ conversation_history = <<>> /\ answer = <<>> /\ asks = 0

Next ==
  \/ LoadData
  \/ \E p \in SessionProducts : GetProductData(p)
  \/ \E c \in SessionCities : GetCityData(c)
  \/ \E c1 \in SessionCities, p \in SessionProducts : CompareCities(c1, Austin, p)
  \/ \E p \in SessionProducts, n \in {1, DefaultTopN} : GetTopCities(p, n)
  \/ \E p \in SessionProducts : CalculateGrowth(p)
  \/ \E q \in SessionQueries : GetRelevantData(q)
  \/ \E v \in 0..MaxQty : CallerSetsQuantity(v)
  \/ CallerDropsRow

Spec == Init /\ [][Next]_vars

(***************************************************************************)
(* The query operations on their own: one table, loaded, and one call.     *)
(***************************************************************************)
AggregateTables == ShapeTables \cup {PatternTable(Len(AllCities) + 2, k) : k \in 1..MaxQty}

InitAggregate ==
  /\ monthly_file \in AggregateTables
  /\ daily_file = DailyTable
  /\ heap = (1 :> read_csv(monthly_file)) @@ (2 :> ConvertDates(read_csv(daily_file)))
  /\ monthly_df = 1 /\ daily_df = 2 /\ reads = 1
  /\ op = NoCall /\ ret = <<>>
  /\ query = NotYet /\ intent = "" /\ cities = NotYetList /\ product = NotYet
  /\ data = NoFrame /\ context = NoContext
  /\ conversation_history = <<>> /\ answer = <<>> /\ asks = 0

\* No call has been made yet.
First == op = NoCall

NextAggregate ==
  \/ \E p \in ProductArgs : First /\ GetProductData(p)
  \/ \E c \in CityArgs : First /\ GetCityData(c)
  \/ \E c1 \in CityArgs, c2 \in CityArgs, p \in ProductArgs :
       First /\ CompareCities(c1, c2, p)
  \/ \E p \in ProductArgs, n \in TopNArgs : First /\ GetTopCities(p, n)
  \/ \E p \in ProductArgs : First /\ CalculateGrowth(p)

SpecAggregate == InitAggregate /\ [][NextAggregate]_vars

(***************************************************************************)
(* The product filter applied again to what it returned: get_product_data  *)
(* on a loader whose monthly table is the frame the previous call returned *)
(* (the stored table at first).                                            *)
(***************************************************************************)
FilterByProduct(p) ==
  LET src == IF ret = <<>> THEN heap[monthly_df] ELSE heap[ret[Len(ret)]]
      id == FreshId(DOMAIN heap)
  IN /\ Len(ret) < MaxFilters
     /\ op = NoCall \/ op.product = p
     /\ heap' = (id :> get_product_data(src, p)) @@ heap
     /\ ret' = Append(ret, id)
     /\ op' = [Call("get_product_data") EXCEPT !.product = p]
     /\ UNCHANGED <<monthly_file, daily_file, monthly_df, daily_df, reads,
                    query, intent, cities, product, data, context,
                    conversation_history, answer, asks>>

NextFilter == \E p \in ProductArgs : FilterByProduct(p)

SpecFilter == InitAggregate /\ [][NextFilter]_vars

(***************************************************************************)
(* The planner on its own: one table, loaded, and one question.            *)
(***************************************************************************)
PlanTables ==
  {ShapeTable(s, 1) : s \in {7, 8, 9}} \cup {PatternTable(Len(AllCities) + 2, 1)}

InitPlan ==
  /\ monthly_file \in PlanTables
  /\ daily_file = DailyTable
  /\ heap = (1 :> read_csv(monthly_file)) @@ (2 :> ConvertDates(read_csv(daily_file)))
  /\ monthly_df = 1 /\ daily_df = 2 /\ reads = 1
  /\ op = NoCall /\ ret = <<>>
  /\ query \in Queries /\ intent = "" /\ cities = NotYetList /\ product = NotYet
  /\ data = NoFrame /\ context = NoContext
  /\ conversation_history = <<>> /\ answer = <<>> /\ asks = 0

NextPlan == First /\ GetRelevantData(query)

SpecPlan == InitPlan /\ [][NextPlan]_vars

(***************************************************************************)
(* The summarizer on its own: one frame, and its context.                  *)
(***************************************************************************)
\* df[cols]
Project(df, cols) ==
  [cols |-> cols,
   rows |-> [i \in DOMAIN df.rows |-> [j \in DOMAIN cols |-> df.rows[i][ColIndex(df, cols[j])]]]]

\* Row counts near zero and on both sides of max_rows.
ContextSizes == (0..MaxCtxExtra) \cup ((max_rows - MaxCtxExtra)..(max_rows + MaxCtxExtra))

ContextColumns == {
  MonthlyCols,
  <<Col.City_State, Col.Predicted_Quantity>>,
  <<Col.Product, Col.City_State, Col.Month>>,
  <<Col.Month, Col.Predicted_Quantity>> }

InitSummarize ==
  /\ data \in {Project(PatternTable(n, k), cols) :
               n \in ContextSizes, k \in 0..MaxQty, cols \in ContextColumns}
  /\ context = NoContext
  /\ conversation_history = <<>> /\ answer = <<>> /\ asks = 0
  /\ monthly_file = NoFrame /\ daily_file = NoFrame
  /\ heap = <<>> /\ monthly_df = NoneRef /\ daily_df = NoneRef /\ reads = 0
  /\ op = NoCall /\ ret = <<>>
  /\ query = NotYet /\ intent = "" /\ cities = NotYetList /\ product = NotYet

NextSummarize == FormatDataContext

SpecSummarize == InitSummarize /\ [][NextSummarize]_vars

(***************************************************************************)
(* What the claims are stated about.                                       *)
(***************************************************************************)
\* The stored monthly table, and the frame the last call returned.
Monthly == heap[monthly_df]
Result == heap[ret[1]]

\* Whether the lower-cased query holds a keyword of the pattern.
KeywordIn(text, pat) == \E i \in DOMAIN pat : Contains(text, pat[i])
HasKeyword(pat) == KeywordIn(Lower(query), pat)

\* The rows of the monthly table about product p (any product when p is None).
RowsOf(p) == SelectSeq(Monthly.rows, LAMBDA r : p = None \/ r[1] = p)

\* The rows of the monthly table whose product is p.
RowsAbout(p) == SelectSeq(Monthly.rows, LAMBDA r : r[1] = p)

\* The locations that have rows for p, and the sum of a location's quantities for p.
LocationsOf(p) == {r[2] : r \in Range(RowsAbout(p))}
QuantityOf(p, loc) ==
  LET rs == SelectSeq(RowsAbout(p), LAMBDA r : r[2] = loc)
  IN SumSeq([i \in DOMAIN rs |-> rs[i][4]])

\* C1: detect_intent returns the first intent, in the order comparison,
\* growth, top_cities, stock_increase, whose pattern has a keyword in the
\* lower-cased query, and 'general' when none has; a query with a comparison
\* keyword and a growth keyword is classified comparison.
C1_IntentIsFirstMatch ==
  intent # "" =>
    LET order == <<"comparison", "growth", "top_cities", "stock_increase">>
        query_lower == Lower(query)
        Hit(j) == KeywordIn(query_lower, patterns[order[j]])
    IN /\ \A j \in DOMAIN order :
            (Hit(j) /\ \A k \in 1..(j - 1) : ~Hit(k)) => intent = order[j]
       /\ (\A j \in DOMAIN order : ~Hit(j)) => intent = "general"
       /\ (Hit(1) /\ Hit(2)) => intent = "comparison"

C1_Witness ==
  /\ intent = "comparison"
  /\ HasKeyword(patterns.comparison)
  /\ HasKeyword(patterns.growth)
  /\ HasKeyword(patterns.stock_increase)

\* C2: in every row of calculate_growth whose base-period quantity is 0, the
\* growth value is a distinct 'undefined' outcome: not a number, not an
\* infinity and not NaN.
Undefined(g) == g.k \notin {"num", "pct", "inf", "nan"}

C2_ZeroBaseIsUndefined ==
  op.name = "calculate_growth" =>
    \A i \in DOMAIN Result.rows :
      LET row == Result.rows[i]
      IN /\ (HasCol(Result, Col.Growth_M1_M2) /\ row[3] = Num(0))
              => Undefined(row[ColIndex(Result, Col.Growth_M1_M2)])
         /\ (HasCol(Result, Col.Growth_M2_M3) /\ row[4] = Num(0))
              => Undefined(row[ColIndex(Result, Col.Growth_M2_M3)])
         /\ (HasCol(Result, Col.Growth_Total) /\ row[3] = Num(0))
              => Undefined(row[ColIndex(Result, Col.Growth_Total)])

\* C3: calculate_growth emits no growth column when the filtered data has
\* fewer than 2 distinct periods, exactly Growth_M1_M2 when it has exactly 2,
\* and Growth_M1_M2, Growth_M2_M3 and Growth_Total when it has 3 or more; the
\* periods are taken in ascending order (the period columns ascend, and each
\* growth is that of the first, second and third of them).
Periods == {r[3] : r \in Range(RowsOf(IF Truthy(op.product) THEN op.product ELSE None))}

C3_GrowthColumnsByPeriods ==
  op.name = "calculate_growth" =>
    LET n == Cardinality(Periods)
        g1 == HasCol(Result, Col.Growth_M1_M2)
        g2 == HasCol(Result, Col.Growth_M2_M3)
        g3 == HasCol(Result, Col.Growth_Total)
    IN /\ n < 2 => ~g1 /\ ~g2 /\ ~g3
       /\ n = 2 => g1 /\ ~g2 /\ ~g3
       /\ n >= 3 => g1 /\ g2 /\ g3
       /\ Len(Result.cols) = 2 + n + (IF n >= 3 THEN 3 ELSE IF n = 2 THEN 1 ELSE 0)
       /\ \A j \in 3..(2 + n) : Result.cols[j] \in Periods
       /\ \A j \in 3..(1 + n) : StrLess(Result.cols[j], Result.cols[j + 1])
       /\ \A i \in DOMAIN Result.rows :
            LET row == Result.rows[i]
            IN /\ g1 => row[ColIndex(Result, Col.Growth_M1_M2)] = GrowthCell(row[3], row[4])
               /\ g2 => row[ColIndex(Result, Col.Growth_M2_M3)] = GrowthCell(row[4], row[5])
               /\ g3 => row[ColIndex(Result, Col.Growth_Total)] = GrowthCell(row[3], row[5])

C3_Witness ==
  /\ op.name = "calculate_growth"
  /\ Truthy(op.product)
  /\ Cardinality(Periods) = 2
  /\ Cardinality({r[3] : r \in Range(Monthly.rows)}) > 2
  /\ Result.cols[Len(Result.cols)] = Col.Growth_M1_M2
  /\ Result.rows # <<>>

\* C4 as claimed: get_top_cities returns min(n, number of locations of p)
\* rows, each a location with the sum of its quantities for p, by descending
\* sum, locations of equal sum in the order of their first appearance in the
\* monthly table.
FirstRowOf(p, loc) == CHOOSE i \in DOMAIN Monthly.rows :
  /\ Monthly.rows[i][1] = p /\ Monthly.rows[i][2] = loc
  /\ \A j \in 1..(i - 1) : ~(Monthly.rows[j][1] = p /\ Monthly.rows[j][2] = loc)

\* Location a ranks before location b: a larger sum, or the same and seen first.
RanksBefore(p, a, b) ==
  \/ QuantityOf(p, a) > QuantityOf(p, b)
  \/ QuantityOf(p, a) = QuantityOf(p, b) /\ FirstRowOf(p, a) < FirstRowOf(p, b)

TopRowsAreSums ==
  /\ Result.cols = <<Col.City_State, Col.Predicted_Quantity>>
  /\ Len(Result.rows) = Min2(op.n, Cardinality(LocationsOf(op.product)))
  /\ \A i \in DOMAIN Result.rows :
       /\ Result.rows[i][1] \in LocationsOf(op.product)
       /\ Result.rows[i][2] = QuantityOf(op.product, Result.rows[i][1])
  /\ \A i, j \in DOMAIN Result.rows : i # j => Result.rows[i][1] # Result.rows[j][1]

C4_TiesInFirstSeenOrder ==
  op.name = "get_top_cities" =>
    /\ TopRowsAreSums
    /\ \A i, j \in DOMAIN Result.rows :
         i < j => RanksBefore(op.product, Result.rows[i][1], Result.rows[j][1])
    /\ \A i \in DOMAIN Result.rows :
         \A b \in LocationsOf(op.product) \ {Result.rows[k][1] : k \in DOMAIN Result.rows} :
           RanksBefore(op.product, Result.rows[i][1], b)

\* C4, amended: get_top_cities returns min(n, number of locations of p) rows,
\* each a distinct location with the sum of its quantities for p, by
\* descending sum, no location left out having a larger sum than one
\* returned; nothing is promised about the order of locations of equal sum.
C4_TopNByDescendingSum ==
  op.name = "get_top_cities" =>
    /\ TopRowsAreSums
    /\ \A i, j \in DOMAIN Result.rows : i < j => Result.rows[i][2] >= Result.rows[j][2]
    /\ \A i \in DOMAIN Result.rows :
         \A b \in LocationsOf(op.product) \ {Result.rows[k][1] : k \in DOMAIN Result.rows} :
           Result.rows[i][2] >= QuantityOf(op.product, b)

C4_Witness ==
  /\ op.name = "get_top_cities"
  /\ Len(Result.rows) = 2
  /\ Cardinality(LocationsOf(op.product)) = 3
  /\ Result.rows[1][2] > Result.rows[2][2]
  /\ \E b \in LocationsOf(op.product) :
       b # Result.rows[2][1] /\ QuantityOf(op.product, b) = Result.rows[2][2]

\* C5: with at most max_rows (50) rows the context holds every row, is
\* tagged complete and has no statistics; with more it holds exactly the
\* first 50 rows in the order received, is tagged a sample, and its
\* statistics (row count; sum, minimum and maximum of the quantity; number
\* of distinct locations; products) are those of all the rows given, each
\* stated when the frame has the column it is about.
StatOf(label) == CHOOSE s \in Range(context.stats) : s.label = label
HasStat(label) == \E s \in Range(context.stats) : s.label = label
Quantities == Column(data, Col.Predicted_Quantity)

C5_SampleAndFullStatistics ==
  context # NoContext =>
    LET n == Len(data.rows)
    IN /\ context.total = n
       /\ context.sample.cols = data.cols
       /\ n <= 50 => /\ context.tag = "completes"
                     /\ context.sample.rows = data.rows
                     /\ context.stats = <<>>
       /\ n > 50 =>
            /\ context.tag = "echantillon"
            /\ Len(context.sample.rows) = 50
            /\ \A i \in 1..50 : context.sample.rows[i] = data.rows[i]
            /\ HasStat("Total de lignes") /\ StatOf("Total de lignes").n = n
            /\ HasStat("Quantite totale") <=> HasCol(data, Col.Predicted_Quantity)
            /\ HasStat("Quantite min") <=> HasCol(data, Col.Predicted_Quantity)
            /\ HasStat("Quantite max") <=> HasCol(data, Col.Predicted_Quantity)
            /\ HasStat("Nombre de villes") <=> HasCol(data, Col.City_State)
            /\ HasStat("Produits") <=> HasCol(data, Col.Product)
            /\ HasCol(data, Col.Predicted_Quantity) =>
                 /\ StatOf("Quantite totale").n = SumSeq(Quantities)
                 /\ StatOf("Quantite min").n \in Range(Quantities)
                 /\ StatOf("Quantite max").n \in Range(Quantities)
                 /\ \A q \in Range(Quantities) :
                      StatOf("Quantite min").n <= q /\ q <= StatOf("Quantite max").n
            /\ HasCol(data, Col.City_State) =>
                 StatOf("Nombre de villes").n =
                   Cardinality({data.rows[i][ColIndex(data, Col.City_State)] : i \in 1..n})
            /\ HasCol(data, Col.Product) =>
                 Range(StatOf("Produits").list) =
                   {data.rows[i][ColIndex(data, Col.Product)] : i \in 1..n}

C5_Witness ==
  /\ context # NoContext
  /\ Len(data.rows) > 50
  /\ data.cols = MonthlyCols
  /\ Len(context.sample.rows) = 50
  /\ StatOf("Quantite totale").n >
       SumSeq(Column(context.sample, Col.Predicted_Quantity))

\* C6 as claimed: the source files are read at most once per DataLoader.
C6_FilesReadAtMostOnce == reads <= 1

\* C6, amended: load_data reads the files on every call; once the tables are
\* loaded, no other call (a query operation or get_relevant_data) reads them
\* again, and none rebinds the stored tables.
C6_OnlyLoadDataReads ==
  [][IF op'.name = "load_data"
     THEN reads' = reads + 1
     ELSE monthly_df # NoneRef =>
            reads' = reads /\ monthly_df' = monthly_df /\ daily_df' = daily_df]_vars

QueryCalls == {"get_product_data", "get_city_data", "compare_cities", "get_top_cities",
               "calculate_growth", "get_relevant_data"}

C6_Witness == op.name \in QueryCalls /\ op.loaded /\ reads = 1

\* C7 as claimed: whatever a call made after the initial load returned, the
\* caller's writing into it leaves the stored monthly and daily tables as
\* they were.
StoredUnchanged ==
  /\ monthly_df' = monthly_df /\ daily_df' = daily_df
  /\ heap'[monthly_df] = heap[monthly_df]
  /\ heap'[daily_df] = heap[daily_df]

C7_NoReturnedValueAliases ==
  [][(op.loaded /\ op'.name = "mutate") => StoredUnchanged]_vars

\* C7, amended: what a query operation or get_relevant_data returns is a new
\* frame, not one of the stored tables, and the caller's writing into it
\* leaves the stored monthly and daily tables as they were; load_data
\* returns the stored tables themselves.
C7_QueryResultsAreCopies ==
  [][/\ op'.name \in QueryCalls => Range(ret') \cap {monthly_df', daily_df'} = {}
     /\ op'.name = "load_data" => ret' = <<monthly_df', daily_df'>>
     /\ (op.name \in QueryCalls /\ op'.name = "mutate") => StoredUnchanged]_vars

C7_Witness ==
  /\ op.name = "mutate"
  /\ op.of = "get_relevant_data"
  /\ intent = "top_cities" /\ Truthy(product)
  /\ Result # Monthly
  /\ Monthly = read_csv(monthly_file)

\* Whether a row of the monthly table is about the product found (any row
\* when none was), and about one of the cities found (any row when none was).
AboutProduct(r) == product = None \/ r[1] = product
AboutCities(r) == cities = <<>> \/ r[2] \in Range(cities)
GeneralRows == SelectSeq(Monthly.rows, LAMBDA r : AboutProduct(r) /\ AboutCities(r))

\* C8: on a query classified comparison, get_relevant_data returns, when at
\* least 2 locations were found, the monthly rows whose location is one of
\* the first two found, narrowed to the product if one was found; with fewer
\* than 2 locations it returns what the general branch returns.
C8_ComparisonOrFallback ==
  (op.name = "get_relevant_data" /\ intent = "comparison") =>
    /\ Result.cols = MonthlyCols
    /\ Result.rows =
         IF Len(cities) >= 2
         THEN SelectSeq(Monthly.rows,
                        LAMBDA r : r[2] \in {cities[1], cities[2]} /\ AboutProduct(r))
         ELSE GeneralRows

C8_Witness ==
  /\ op.name = "get_relevant_data" /\ intent = "comparison"
  /\ Len(cities) >= 2 /\ product # None
  /\ Result.rows # <<>>
  /\ \E r \in Range(Monthly.rows) : r[2] = cities[1] /\ r[1] # product

\* C9: on a query classified general, get_relevant_data returns the monthly
\* table restricted to the product found (if any) and to the locations found
\* (if any); the empty query is classified general and returns every row.
C9_GeneralFilters ==
  op.name = "get_relevant_data" =>
    /\ intent = "general" => Result.cols = MonthlyCols /\ Result.rows = GeneralRows
    /\ query = <<>> => intent = "general" /\ Result = Monthly

C9_Witness ==
  /\ op.name = "get_relevant_data" /\ query = <<>> /\ intent = "general"
  /\ Result = Monthly /\ Len(Result.rows) >= 3

\* C10: on a query classified top_cities, get_relevant_data returns, when a
\* product was found, the monthly rows of that product whose location is
\* among the 10 locations of largest summed quantity for it (the monthly
\* rows, not the totals), whatever locations were found; when no product was
\* found it returns the whole monthly table.
TopLocations == {Result.rows[i][2] : i \in DOMAIN Result.rows}

C10_TopLocationsJoin ==
  (op.name = "get_relevant_data" /\ intent = "top_cities") =>
    /\ Result.cols = MonthlyCols
    /\ product = None => Result.rows = Monthly.rows
    /\ product # None =>
         /\ TopLocations \subseteq LocationsOf(product)
         /\ Cardinality(TopLocations) = Min2(10, Cardinality(LocationsOf(product)))
         /\ \A a \in TopLocations : \A b \in LocationsOf(product) \ TopLocations :
              QuantityOf(product, a) >= QuantityOf(product, b)
         /\ Result.rows = SelectSeq(Monthly.rows,
                                    LAMBDA r : r[1] = product /\ r[2] \in TopLocations)

C10_Witness ==
  /\ op.name = "get_relevant_data" /\ intent = "top_cities"
  /\ product # None /\ cities # <<>>
  /\ Cardinality(LocationsOf(product)) > 10
  /\ Cardinality(TopLocations) = 10
  /\ \E c \in Range(cities) : c \notin TopLocations

\* Whether s is t with some of its elements left out (order kept).
RECURSIVE IsSubSeq(_, _)
IsSubSeq(s, t) ==
  IF s = <<>> THEN TRUE
  ELSE IF t = <<>> THEN FALSE
  ELSE IF s[1] = t[1] THEN IsSubSeq(Tail(s), Tail(t))
  ELSE IsSubSeq(s, Tail(t))

MonthlyShaped == Result.cols = MonthlyCols /\ IsSubSeq(Result.rows, Monthly.rows)

\* C11 as claimed: whatever the intent, the result of get_relevant_data has
\* the columns of the monthly table (Product, City_State, Month,
\* Predicted_Quantity) and its rows are rows of the monthly table.
C11_ResultHasMonthlyShape ==
  op.name = "get_relevant_data" => MonthlyShaped

\* C11, amended: on every intent but growth the result of get_relevant_data
\* has the columns of the monthly table and its rows are rows of the monthly
\* table, in the table's order; on growth it is the pivoted growth frame:
\* Product and City_State, then one column per period, then the growth
\* columns, with one row per (product, location) pair of the monthly rows
\* that pass the product and location filters, and neither a Month nor a
\* Predicted_Quantity column.
GrowthPairs == {<<r[1], r[2]>> : r \in Range(GeneralRows)}

C11_MonthlyShapeButGrowth ==
  op.name = "get_relevant_data" =>
    /\ intent # "growth" => MonthlyShaped
    /\ intent = "growth" =>
         /\ Len(Result.cols) >= 2
         /\ Result.cols[1] = Col.Product /\ Result.cols[2] = Col.City_State
         /\ ~HasCol(Result, Col.Month) /\ ~HasCol(Result, Col.Predicted_Quantity)
         /\ \A j \in 3..Len(Result.cols) :
              \/ Result.cols[j] \in {r[3] : r \in Range(RowsOf(product))}
              \/ Result.cols[j] \in {Col.Growth_M1_M2, Col.Growth_M2_M3, Col.Growth_Total}
         /\ {<<Result.rows[i][1], Result.rows[i][2]>> : i \in DOMAIN Result.rows} = GrowthPairs
         /\ Len(Result.rows) = Cardinality(GrowthPairs)

C11_Witness ==
  /\ op.name = "get_relevant_data" /\ intent = "growth"
  /\ product # None /\ cities # <<>>
  /\ Result.rows # <<>>
  /\ HasCol(Result, Col.Growth_M1_M2)
  /\ Len(Result.rows) < Len(Monthly.rows)

\* The canonical names of the city_mapping keys that occur in the lower-cased
\* query, and the 'Name (XX)' matches of the query as names, in text order.
AliasHits ==
  LET query_lower == Lower(query)
  IN {city_mapping[i][2] : i \in {k \in DOMAIN city_mapping :
                                    Contains(query_lower, city_mapping[k][1])}}
PatternNames ==
  LET ms == FindAllCities(query, 1)
  IN [i \in DOMAIN ms |-> ms[i].name \o <<" ", "(">> \o ms[i].state \o <<")">>]
FirstAt(s, x) == CHOOSE i \in DOMAIN s : s[i] = x /\ \A j \in 1..(i - 1) : s[j] # x
MappingIndex(full) == CHOOSE i \in DOMAIN city_mapping : city_mapping[i][2] = full

\* C12: extract_cities returns a sequence without duplicates: first the
\* canonical names of all the city_mapping keys that occur in the lower-cased
\* text (in the order of the mapping), then the 'Name (XX)' matches not
\* already present, in text order; for 'Compare Dallas and Austin (TX)' it
\* is Dallas (TX), then Austin (TX).
C12_AliasHitsThenPatternMatches ==
  cities # NotYetList =>
    LET hits == AliasHits
        names == PatternNames
        k == Cardinality(hits)
        rest == SubSeq(cities, k + 1, Len(cities))
    IN /\ \A i, j \in DOMAIN cities : i # j => cities[i] # cities[j]
       /\ Len(cities) >= k
       /\ {cities[i] : i \in 1..k} = hits
       /\ \A i, j \in 1..k : i < j => MappingIndex(cities[i]) < MappingIndex(cities[j])
       /\ Range(rest) = Range(names) \ hits
       /\ \A i, j \in DOMAIN rest :
            i < j => FirstAt(names, rest[i]) < FirstAt(names, rest[j])
       /\ query = <<"C","o","m","p","a","r","e"," ","D","a","l","l","a","s"," ","a","n","d"," ","A","u","s","t","i","n"," ","(","T","X",")">> => cities = <<Dallas, Austin>>

C12_Witness ==
  /\ cities # NotYetList
  /\ AliasHits # {}
  /\ Range(PatternNames) \cap AliasHits # {}
  /\ Range(PatternNames) \ AliasHits # {}
  /\ Len(cities) < Cardinality(AliasHits) + Len(PatternNames)

\* C14: extract_product returns the product of the first keyword group, the
\* ThinkPad group then the batteries group, that has a keyword in the
\* lower-cased text, and None when neither has; a text with keywords of both
\* groups gives 'ThinkPad Laptop'.
C14_ProductOfFirstGroup ==
  product # NotYet =>
    LET query_lower == Lower(query)
        thinkpad == KeywordIn(query_lower, patterns.product_thinkpad)
        batteries == KeywordIn(query_lower, patterns.product_batteries)
    IN /\ thinkpad => product = ThinkPadLaptop
       /\ (~thinkpad /\ batteries) => product = AAABatteries
       /\ (~thinkpad /\ ~batteries) => product = None

C14_Witness ==
  /\ product = ThinkPadLaptop
  /\ HasKeyword(patterns.product_thinkpad)
  /\ HasKeyword(patterns.product_batteries)

\* Whether the monthly table has rows of product p, rows about location c.
HasProduct(p) == \E r \in Range(Monthly.rows) : r[1] = p
HasLocation(c) == \E r \in Range(Monthly.rows) : r[2] = c

\* C13: a query operation called with a product or a location that has no
\* rows in the monthly table returns a frame with no rows (it returns, it
\* does not fail); compare_cities with one location missing returns just
\* the other location's rows.
C13_UnknownGivesNoRows ==
  op.name \in {"get_product_data", "get_city_data", "compare_cities",
               "get_top_cities", "calculate_growth"} =>
    /\ Len(ret) = 1
    /\ ret[1] \in DOMAIN heap
    /\ (op.name \in {"get_product_data", "get_top_cities"} /\ ~HasProduct(op.product))
         => Result.rows = <<>>
    /\ (op.name \in {"compare_cities", "calculate_growth"}
          /\ Truthy(op.product) /\ ~HasProduct(op.product))
         => Result.rows = <<>>
    /\ (op.name = "get_city_data" /\ ~HasLocation(op.city1)) => Result.rows = <<>>
    /\ (op.name = "compare_cities" /\ ~HasLocation(op.city1) /\ ~HasLocation(op.city2))
         => Result.rows = <<>>
    /\ (op.name = "compare_cities" /\ ~HasLocation(op.city1))
         => Result.rows = SelectSeq(Monthly.rows, LAMBDA r :
                            r[2] = op.city2 /\ (Truthy(op.product) => r[1] = op.product))
    /\ (op.name = "compare_cities" /\ ~HasLocation(op.city2))
         => Result.rows = SelectSeq(Monthly.rows, LAMBDA r :
                            r[2] = op.city1 /\ (Truthy(op.product) => r[1] = op.product))

C13_Witness ==
  /\ op.name = "calculate_growth"
  /\ Truthy(op.product) /\ ~HasProduct(op.product)
  /\ Monthly.rows # <<>>
  /\ Result.rows = <<>>

\* C15: filtering by product is idempotent: the product filter applied to
\* its own result returns the same rows in the same order as it returned
\* the first time, the rows of the product in the table's order.
C15_ProductFilterIdempotent ==
  (op.name = "get_product_data" /\ Len(ret) >= 1) =>
    /\ heap[ret[1]] = [cols |-> MonthlyCols, rows |-> RowsAbout(op.product)]
    /\ \A i \in 2..Len(ret) : heap[ret[i]] = heap[ret[1]]

C15_Witness ==
  /\ op.name = "get_product_data" /\ Len(ret) >= 2
  /\ Len(heap[ret[2]].rows) >= 2
  /\ Len(heap[ret[2]].rows) < Len(Monthly.rows)
  /\ heap[ret[2]].rows[1] # heap[ret[2]].rows[2]

\* C16: conversation_history never holds more than 10 messages; an ask that
\* is answered leaves it as the last 10 (all, when there are fewer) of what
\* it was followed by the user message and then the assistant's answer; an
\* ask whose call to the API raises leaves it unchanged; reset_conversation
\* empties it.
LastExchange ==
  <<Message("user", query'), Message("assistant", answer')>>

C16_HistoryIsLastTen ==
  /\ [](Len(conversation_history) <= 10)
  /\ [][/\ (op'.name = "ask" /\ op'.of = "answered") =>
            LET h == conversation_history \o LastExchange
                n == IF Len(h) > 10 THEN 10 ELSE Len(h)
            IN /\ Len(conversation_history') = n
               /\ \A i \in 1..n : conversation_history'[i] = h[Len(h) - n + i]
        /\ (op'.name = "ask" /\ op'.of = "raised") =>
            conversation_history' = conversation_history
        /\ op'.name = "reset_conversation" => conversation_history' = <<>>]_vars

C16_Witness ==
  /\ op.name = "ask" /\ op.of = "answered"
  /\ asks * 2 > 10
  /\ Len(conversation_history) = 10
  /\ conversation_history[9] = Message("user", query)
  /\ conversation_history[10] = Message("assistant", answer)
  /\ conversation_history[1].content # conversation_history[9].content
====
